---- MODULE Spec2Model ----
(***************************************************************************)
(* LegalLink: the completion orchestrator, LLMService.generate_response    *)
(* (src/app/services/llm_service.py), with the settings it reads           *)
(* (src/app/core/config.py).                                               *)
(*                                                                         *)
(* One LLMService is constructed from the settings; requests are served    *)
(* one after the other.  Each outbound completion request (requests.post,  *)
(* client.models.generate_content) is one step of the model whose outcome  *)
(* is drawn from the outcomes the provider or the transport can produce.   *)
(***************************************************************************)
EXTENDS Integers, Sequences, FiniteSets, TLC

VARIABLES
    settings,       \* app.core.config.settings
    self,           \* the LLMService singleton: provider, api_key, model
    pc,             \* position of the running generate_response call
    models_to_try,  \* the candidate chain of the running call
    idx,            \* position of the for loop in models_to_try
    last_error,     \* local last_error
    attempts,       \* completion requests issued by the running call
    last_outcome,   \* outcome of the most recent completion request
    result,         \* value returned by the call
    chat_history,   \* argument chat_history of the running call
    messages,       \* local messages of the running call
    payload,        \* body of the most recent completion request
    db,             \* the relational store: documents, chat sessions, chat messages
    response,       \* the HTTP response of the most recent finished request
    docs_dir,       \* the directory settings.DOCS_PATH
    index_dir,      \* whether the directory settings.FAISS_INDEX_PATH exists
    disk,           \* the index files persisted per index key
    embeddings,     \* RAGService.embeddings is set
    vector_store,   \* RAGService.vector_store
    call,           \* the most recent completed call on the RAG service
    threads         \* requests running concurrently on the RAG service

llm_vars == <<settings, self, pc, models_to_try, idx, last_error, attempts,
              last_outcome, result, chat_history, messages, payload>>

rag_vars == <<docs_dir, index_dir, disk, embeddings, vector_store, call, threads>>

app_vars == <<db, response>>

vars == <<settings, self, pc, models_to_try, idx, last_error, attempts,
          last_outcome, result, chat_history, messages, payload, db, response, docs_dir,
          index_dir, disk, embeddings, vector_store, call, threads>>

----------------------------------------------------------------------------
(* Bounds *)

\* longest non-default OPENROUTER_FALLBACK_MODELS list that is enumerated
MaxFallbacks == 2

----------------------------------------------------------------------------
(* Settings (config.py) *)

DefaultOpenRouterModel == "google/gemini-2.0-flash-exp:free"

DefaultFallbackModels ==
    << "google/gemini-2.0-flash-exp:free",
       "meta-llama/llama-3.2-3b-instruct:free",
       "microsoft/phi-3-mini-128k-instruct:free",
       "mistralai/mistral-7b-instruct:free",
       "openchat/openchat-7b:free",
       "gryphe/mythomax-l2-13b:free",
       "nousresearch/hermes-3-llama-3.1-405b:free" >>

DefaultOpenAIModel == "gpt-3.5-turbo"

DefaultGeminiModel == "gemini-2.5-flash"

\* model ids an operator may configure besides the default
ModelIds == {DefaultOpenRouterModel, "meta-llama/llama-3.2-3b-instruct:free"}

\* an API key is the empty string (the default) or a configured secret
ApiKeys == {"", "sk-key"}

\* PROVIDER values the constructor accepts (after lower())
Providers == {"openrouter", "OpenRouter", "openai", "gemini"}

SeqsUpTo(S, n) == UNION {[1..k -> S] : k \in 0..n}

FallbackLists == {DefaultFallbackModels} \cup SeqsUpTo(ModelIds, MaxFallbacks)

Settings ==
    [ PROVIDER : Providers,
      OPENROUTER_API_KEY : ApiKeys,
      OPENROUTER_MODEL : ModelIds,
      OPENROUTER_FALLBACK_MODELS : FallbackLists,
      ENABLE_MODEL_FALLBACK : BOOLEAN,
      OPENAI_API_KEY : ApiKeys,
      OPENAI_MODEL : {DefaultOpenAIModel},
      GEMINI_API_KEY : ApiKeys,
      GEMINI_MODEL : {DefaultGeminiModel} ]

\* str.lower() on the provider names in use
Lower(s) == IF s = "OpenRouter" THEN "openrouter" ELSE s

\* LLMService.__init__
LLMService(s) ==
    LET p == Lower(s.PROVIDER) IN
    IF p = "openrouter"
      THEN [provider |-> p, api_key |-> s.OPENROUTER_API_KEY, model |-> s.OPENROUTER_MODEL]
    ELSE IF p = "openai"
      THEN [provider |-> p, api_key |-> s.OPENAI_API_KEY, model |-> s.OPENAI_MODEL]
    ELSE [provider |-> p, api_key |-> s.GEMINI_API_KEY, model |-> s.GEMINI_MODEL]

----------------------------------------------------------------------------
(* Values *)

Str(s) == [type |-> "str", value |-> s]

\* Python None
NoneValue == [type |-> "NoneType", value |-> "None"]

\* no value returned yet
Pending == [type |-> "pending", value |-> ""]

\* what a provider may put at choices[0].message.content / response.text
Contents == {Str("answer A"), Str("answer B"), NoneValue}

\* the test "s is not None" on a str
Truthy_NotNone(s) == TRUE

\* truthiness of a str
Truthy(s) == s # ""

----------------------------------------------------------------------------
(* Outcomes of one completion request *)

Statuses == {200, 400, 401, 402, 403, 404, 429, 500, 503}

\* shapes of a response body, as the parsing code distinguishes them
\*   completion   : 'choices' non-empty and choices[0].message.content present
\*   no_content   : 'choices' non-empty, choices[0] lacks message / content
\*   error_body   : no usable 'choices', an 'error' member
\*   no_choices   : a JSON object with neither usable 'choices' nor 'error'
\*   invalid_json : response.json() raises ValueError
\*   not_object   : valid JSON that is no container (null, a number)
BodyKinds == {"completion", "no_content", "error_body", "no_choices",
              "invalid_json", "not_object"}

NoOutcome ==
    [site |-> "none", kind |-> "none", status |-> 0, body |-> "", content |-> Pending, msg |-> ""]

HttpOutcome(st, b, c) ==
    [site |-> "", kind |-> "http", status |-> st, body |-> b, content |-> c, msg |-> ""]

\* responses and transport failures of requests.post
HttpOutcomes ==
    {HttpOutcome(200, "completion", c) : c \in Contents}
    \cup {HttpOutcome(200, b, Pending) : b \in BodyKinds \ {"completion"}}
    \cup {HttpOutcome(st, "error_body", Pending) : st \in Statuses \ {200}}
    \cup {[site |-> "", kind |-> "RequestException", status |-> 0, body |-> "",
           content |-> Pending, msg |-> m] : m \in {"Read timed out", "Connection refused"}}

\* results of client.models.generate_content
GeminiOutcomes ==
    {[site |-> "", kind |-> "text", status |-> 0, body |-> "", content |-> c, msg |-> ""]
        : c \in Contents}
    \cup {[site |-> "", kind |-> "Exception", status |-> 0, body |-> "",
           content |-> Pending, msg |-> "429 RESOURCE_EXHAUSTED"]}

At(o, s) == [o EXCEPT !.site = s]

----------------------------------------------------------------------------
(* generate_response: classification of one attempt of the for loop *)

\* response.text of an outcome (short texts, so text[:200] is the text)
ResponseText(o) ==
    IF o.body = "error_body" THEN "{error}"
    ELSE IF o.body = "invalid_json" THEN "<html>"
    ELSE IF o.body = "not_object" THEN "null"
    ELSE "{}"

\* exception classes the request and the body parsing raise
ExceptionClasses ==
    {"RequestException", "HTTPError", "ValueError", "KeyError", "TypeError", "Exception"}

\* line 109-121: the exception raised inside the loop's try block, "none"
\* when the block raises nothing
LoopRaises(o) ==
    IF o.kind = "RequestException" THEN "RequestException"
    ELSE IF o.status = 200 /\ o.body = "invalid_json" THEN "ValueError"
    ELSE IF o.status = 200 /\ o.body = "not_object" THEN "TypeError"
    ELSE IF o.status = 200 /\ o.body = "no_content" THEN "KeyError"
    ELSE "none"

\* line 130, 158, 162: except ValueError, except RequestException,
\* except Exception
LoopCatches(exc) ==
    exc = "ValueError" \/ exc = "RequestException" \/ exc \in ExceptionClasses

IsCompletion_AnyOk(o) ==
    o.kind = "http" /\ o.status = 200

IsCompletion_TruthyOnly(o) ==
    /\ o.kind = "http" /\ o.status = 200 /\ o.body = "completion"
    /\ o.content.type = "str"

\* line 117-124: status 200, 'choices' non-empty and choices[0].message.content
\* read without an exception: the attempt returns that content
IsCompletion(o) ==
    o.kind = "http" /\ o.status = 200 /\ o.body = "completion"

\* line 142
RetryStatus(st) ==
    st \in {429, 402, 404} \/ st >= 500 \/ st = 400

FatalStatus_None(st) ==
    FALSE

\* line 148
FatalStatus(st) ==
    st = 401

\* the value the loop assigns to last_error for a failed attempt
\* (line 128, 132, 144, 150, 155, 160, 164)
ChainError(o) ==
    IF LoopRaises(o) = "RequestException" THEN o.msg
    ELSE IF LoopRaises(o) = "ValueError" THEN "Invalid JSON response"
    ELSE IF LoopRaises(o) = "TypeError" THEN "argument of type 'NoneType' is not iterable"
    ELSE IF LoopRaises(o) = "KeyError" THEN "'message'"
    ELSE IF o.status = 200 /\ o.body = "error_body" THEN "API Error: " \o ResponseText(o)
    ELSE IF RetryStatus(o.status)
        THEN "HTTP " \o ToString(o.status) \o ": " \o ResponseText(o)
    ELSE IF FatalStatus(o.status) THEN "Invalid API Key"
    ELSE "Error " \o ToString(o.status) \o ": " \o ResponseText(o)

ChainControl_BreakOnRetry(o) ==
    IF LoopRaises(o) # "none"
        THEN (IF LoopCatches(LoopRaises(o)) THEN "continue" ELSE "raise")
    ELSE IF IsCompletion(o) THEN "return"
    ELSE IF o.status = 200 /\ o.body = "error_body" THEN "continue"
    ELSE IF RetryStatus(o.status) THEN "break"
    ELSE IF FatalStatus(o.status) THEN "break"
    ELSE "continue"

\* line 107-165: how the loop body ends for an outcome: return, continue,
\* break, or raise when no handler catches
ChainControl(o) ==
    IF LoopRaises(o) # "none"
        THEN (IF LoopCatches(LoopRaises(o)) THEN "continue" ELSE "raise")
    ELSE IF IsCompletion(o) THEN "return"
    ELSE IF o.status = 200 /\ o.body = "error_body" THEN "continue"
    ELSE IF RetryStatus(o.status) THEN "continue"
    ELSE IF FatalStatus(o.status) THEN "break"
    ELSE "continue"

ModelsToTry_IgnoreFlag(svc, s) ==
    IF svc.provider = "openrouter"
      THEN <<svc.model>> \o s.OPENROUTER_FALLBACK_MODELS
      ELSE <<svc.model>>

\* line 95-97
ModelsToTry(svc, s) ==
    IF svc.provider = "openrouter" /\ s.ENABLE_MODEL_FALLBACK
      THEN <<svc.model>> \o s.OPENROUTER_FALLBACK_MODELS
      ELSE <<svc.model>>

\* line 171
UseOpenAIFallback(svc, s) ==
    svc.provider = "openrouter" /\ Truthy(s.OPENAI_API_KEY)

NextCandidate_Skip(i) == i + 2

NextCandidate_Retry(i) == i

\* the for loop's step to the next candidate
NextCandidate(i) == i + 1

\* line 46
NoKeyMessage ==
    "Error: LLM API key not configured. Please set the appropriate key in your environment."

ApologyPhrase ==
    "I couldn't generate a response. The service is currently busy or experiencing issues."

\* line 83, 190
Apology(err) ==
    ApologyPhrase \o " (Last error: " \o err \o ")"

\* requests.Response.raise_for_status
RaiseForStatus(st) ==
    st >= 400 /\ st < 600

\* line 177-186: the exception raised inside the last-resort try block
OpenAIRaises(o) ==
    IF o.kind = "RequestException" THEN "RequestException"
    ELSE IF RaiseForStatus(o.status) THEN "HTTPError"
    ELSE IF o.body = "invalid_json" THEN "ValueError"
    ELSE IF o.body = "not_object" THEN "TypeError"
    ELSE IF o.body = "no_content" THEN "KeyError"
    ELSE "none"

\* line 187: except Exception
OpenAICatches(exc) ==
    exc \in ExceptionClasses

\* line 187-188: str(e) of the exception the last-resort attempt ends with,
\* "" when it ends without one
OpenAIError(o) ==
    IF OpenAIRaises(o) = "RequestException" THEN o.msg
    ELSE IF OpenAIRaises(o) = "HTTPError"
        THEN ToString(o.status) \o (IF o.status < 500 THEN " Client Error" ELSE " Server Error")
    ELSE IF OpenAIRaises(o) = "ValueError" THEN "Expecting value: line 1 column 1 (char 0)"
    ELSE IF OpenAIRaises(o) = "TypeError" THEN "argument of type 'NoneType' is not iterable"
    ELSE IF OpenAIRaises(o) = "KeyError" THEN "'message'"
    ELSE ""

\* line 183-186: the last-resort attempt returns the completion
OpenAIReturns(o) ==
    OpenAIRaises(o) = "none" /\ o.body = "completion"

\* line 81: except Exception
GeminiCatches(exc) ==
    exc \in ExceptionClasses

----------------------------------------------------------------------------
(* RAG service (src/app/services/rag_service.py): persisted and in-memory state *)

\* uploaded documents (UploadedDocument.id) and the index keys
DocIds == {"d1", "d2", "d3", "d4"}

GlobalKey == "global"

IndexKeys == {GlobalKey} \cup DocIds

DocIndexKey_Root(d) == GlobalKey

\* line 163: the directory {index_path}/docs/{doc_id} of a document's index
DocIndexKey(d) == d

\* a file of an index directory: absent, partially written, or complete
AbsentFile == [state |-> "absent", data |-> <<>>]

PartialFile == [state |-> "partial", data |-> <<>>]

CompleteFile(chunks) == [state |-> "complete", data |-> chunks]

\* an index directory holds index.faiss (vectors) and index.pkl (docstore)
NoIndex == [faiss |-> AbsentFile, pkl |-> AbsentFile]

\* self.vector_store = None
NoStore == [present |-> FALSE, chunks |-> <<>>]

\* a FAISS store over a sequence of chunks
Store(chunks) == [present |-> TRUE, chunks |-> chunks]

NoCall == [op |-> "none", doc |-> "", k |-> 0, threshold |-> 0, ret |-> "none",
           hits |-> <<>>]

\* RAGService.__init__ (line 26-34), before anything is persisted
RagConstructed ==
    /\ docs_dir \in {[exists |-> FALSE, files |-> {}], [exists |-> TRUE, files |-> {}],
                     [exists |-> TRUE, files |-> {"a.pdf"}]}
    /\ index_dir = FALSE
    /\ disk = [key \in IndexKeys |-> NoIndex]
    /\ embeddings = FALSE
    /\ vector_store = NoStore
    /\ call = NoCall
    /\ threads = <<>>

----------------------------------------------------------------------------
(* Messages of a completion request *)

\* longest chat_history a call is made with
MaxHistory == 12

\* line 57: chat_history[-10:]
HistoryLimit == 10

\* _build_system_prompt(context), line 192-217
SystemPrompt == "You are LegalLink AI Assistant"

\* argument user_message
UserMessage == "current question"

Message(role, content) == [role |-> role, content |-> content]

\* the i-th stored message of a session: user and assistant turns alternate
Turn(i) ==
    Message(IF i % 2 = 1 THEN "user" ELSE "assistant", "turn " \o ToString(i))

\* the chat histories a call is made with
Histories == {[i \in 1..n |-> Turn(i)] : n \in 0..MaxHistory}

LastMessages_All(h) == h

\* line 57: h[-10:]
LastMessages(h) ==
    IF Len(h) > HistoryLimit THEN SubSeq(h, Len(h) - HistoryLimit + 1, Len(h)) ELSE h

\* line 53-61: the messages array
BuildMessages(h) ==
    <<Message("system", SystemPrompt)>> \o LastMessages(h)
        \o <<Message("user", UserMessage)>>

RECURSIVE PromptTurns(_)
\* line 71-73: the history part of the Gemini prompt
PromptTurns(h) ==
    IF h = <<>> THEN ""
    ELSE (IF Head(h).role = "user" THEN "User" ELSE "Assistant")
           \o ": " \o Head(h).content \o "\n\n" \o PromptTurns(Tail(h))

\* line 69-74: full_prompt
FullPrompt(h) ==
    "System: " \o SystemPrompt \o "\n\n" \o PromptTurns(LastMessages(h))
        \o "User: " \o UserMessage

NoPayload == [model |-> "", messages |-> <<>>, contents |-> ""]

\* line 102-105, 175: the JSON body posted to a chat-completions endpoint
ChatPayload(model, msgs) == [model |-> model, messages |-> msgs, contents |-> ""]

\* line 76-79: the arguments of generate_content
GeminiPayload(model, prompt) == [model |-> model, messages |-> <<>>, contents |-> prompt]

\* no row in any table; uuids are the ids uuid4 has handed out so far
EmptyDb == [documents |-> {}, sessions |-> {}, messages |-> <<>>, uuids |-> {}]

NoResponse == [endpoint |-> "none", status |-> 0, data |-> <<>>]

\* no request was served yet and nothing is stored
AppStarted == db = EmptyDb /\ response = NoResponse

----------------------------------------------------------------------------
(* State machine *)

Init ==
    /\ settings \in Settings
    /\ self = LLMService(settings)
    /\ pc = "idle"
    /\ models_to_try = <<>>
    /\ idx = 0
    /\ last_error = "None"
    /\ attempts = <<>>
    /\ last_outcome = NoOutcome
    /\ result = Pending
    /\ chat_history = <<>>
    /\ messages = <<>>
    /\ payload = NoPayload
    /\ AppStarted
    /\ docs_dir = [exists |-> FALSE, files |-> {}]
    /\ index_dir = FALSE
    /\ disk = [key \in IndexKeys |-> NoIndex]
    /\ embeddings = FALSE
    /\ vector_store = NoStore
    /\ call = NoCall
    /\ threads = <<>>

\* line 35-99: entry of a call, up to the first completion request
generate_response ==
    /\ pc \in {"idle", "done", "raised"}
    /\ attempts' = <<>>
    /\ last_outcome' = NoOutcome
    /\ last_error' = "None"
    /\ payload' = NoPayload
    /\ messages' = IF ~Truthy(self.api_key) THEN <<>> ELSE BuildMessages(chat_history)
    /\ IF ~Truthy(self.api_key)
         THEN /\ pc' = "done"
              /\ result' = Str(NoKeyMessage)
              /\ models_to_try' = <<>>
              /\ idx' = 0
       ELSE IF self.provider = "gemini"
         THEN /\ pc' = "gemini"
              /\ result' = Pending
              /\ models_to_try' = <<>>
              /\ idx' = 0
       ELSE /\ pc' = "loop"
            /\ result' = Pending
            /\ models_to_try' = ModelsToTry(self, settings)
            /\ idx' = 1
    /\ UNCHANGED <<settings, self, chat_history>>
    /\ UNCHANGED rag_vars
    /\ UNCHANGED app_vars

\* line 63-83: the Gemini branch
GeminiGenerate ==
    /\ pc = "gemini"
    /\ \E o \in GeminiOutcomes :
         /\ attempts' = Append(attempts, [provider |-> "gemini", model |-> self.model])
         /\ payload' = GeminiPayload(self.model, FullPrompt(chat_history))
         /\ last_outcome' = At(o, "gemini")
         /\ IF o.kind = "text"
              THEN pc' = "done" /\ result' = o.content
            ELSE IF GeminiCatches(o.kind)
              THEN pc' = "done" /\ result' = Str(Apology(o.msg))
            ELSE pc' = "raised" /\ result' = Pending
    /\ UNCHANGED <<settings, self, models_to_try, idx, last_error, chat_history, messages>>
    /\ UNCHANGED rag_vars
    /\ UNCHANGED app_vars

\* line 101-171: one iteration of the for loop over models_to_try, and, when
\* the loop ends with it, the decision on the last-resort attempt
TryModel ==
    /\ pc = "loop"
    /\ \E out \in HttpOutcomes :
         LET o == At(out, "chain")
             ctl == ChainControl(o)
             err == IF ctl \in {"return", "raise"} THEN last_error ELSE ChainError(o)
             more == ctl = "continue" /\ NextCandidate(idx) <= Len(models_to_try)
         IN
         /\ attempts' = Append(attempts,
                [provider |-> self.provider, model |-> models_to_try[idx]])
         /\ payload' = ChatPayload(models_to_try[idx], messages)
         /\ last_outcome' = o
         /\ last_error' = err
         /\ idx' = IF ctl = "continue" THEN NextCandidate(idx) ELSE idx
         /\ IF ctl = "return"
              THEN pc' = "done" /\ result' = o.content
            ELSE IF ctl = "raise"
              THEN pc' = "raised" /\ result' = Pending
            ELSE IF more
              THEN pc' = "loop" /\ result' = Pending
            ELSE IF UseOpenAIFallback(self, settings)
              THEN pc' = "openai" /\ result' = Pending
            ELSE pc' = "done" /\ result' = Str(Apology(err))
    /\ UNCHANGED <<settings, self, models_to_try, chat_history, messages>>
    /\ UNCHANGED rag_vars
    /\ UNCHANGED app_vars

\* line 172-190: the last-resort attempt against OpenAI
OpenAIFallback ==
    /\ pc = "openai"
    /\ \E out \in HttpOutcomes :
         LET o == At(out, "openai") IN
         /\ attempts' = Append(attempts,
                [provider |-> "openai", model |-> settings.OPENAI_MODEL])
         /\ payload' = ChatPayload(settings.OPENAI_MODEL, messages)
         /\ last_outcome' = o
         /\ IF OpenAIReturns(o)
              THEN pc' = "done" /\ result' = o.content
            ELSE IF OpenAIRaises(o) = "none" \/ OpenAICatches(OpenAIRaises(o))
              THEN pc' = "done" /\ result' = Str(Apology(last_error))
            ELSE pc' = "raised" /\ result' = Pending
    /\ UNCHANGED <<settings, self, models_to_try, idx, last_error, chat_history, messages>>
    /\ UNCHANGED rag_vars
    /\ UNCHANGED app_vars

Next ==
    \/ generate_response
    \/ GeminiGenerate
    \/ TryModel
    \/ OpenAIFallback

Spec == Init /\ [][Next]_vars

TypeOK ==
    /\ settings \in Settings
    /\ pc \in {"idle", "loop", "gemini", "openai", "done", "raised"}
    /\ idx \in 0..(Len(models_to_try) + 2)
    /\ result.type \in {"pending", "str", "NoneType"}

----------------------------------------------------------------------------
(* Properties of generate_response *)

\* C1 as stated: the first candidate whose attempt is HTTP 200 with a
\* non-empty 'choices' list ends the request and its completion text is
\* returned.
C1_Original ==
    (/\ last_outcome.site = "chain"
     /\ last_outcome.kind = "http" /\ last_outcome.status = 200
     /\ last_outcome.body \in {"completion", "no_content"})
    => (pc = "done" /\ result = last_outcome.content)

\* C1 (amended): the first candidate whose attempt is HTTP 200 with a
\* non-empty 'choices' list whose first entry carries message.content ends
\* the request: exactly that content is returned, the attempts made are the
\* chain up to that candidate, and no further attempt (no later candidate,
\* no cross-provider attempt) is made in that request.
C1_FirstSuccessWins ==
    /\ [](LET won == /\ last_outcome.site = "chain"
                     /\ last_outcome.kind = "http" /\ last_outcome.status = 200
                     /\ last_outcome.body = "completion"
          IN won => /\ pc = "done"
                    /\ result = last_outcome.content
                    /\ Len(attempts) = idx
                    /\ \A i \in 1..Len(attempts) :
                         attempts[i] = [provider |-> self.provider,
                                        model |-> models_to_try[i]])
    /\ [][LET won == /\ last_outcome.site = "chain"
                     /\ last_outcome.kind = "http" /\ last_outcome.status = 200
                     /\ last_outcome.body = "completion"
          IN won => (attempts' = attempts \/ attempts' = <<>>)]_vars

\* C1 witness: an earlier candidate failed, a later one succeeded, and at
\* least one candidate of the chain was left untried
C1_Witness ==
    /\ pc = "done"
    /\ last_outcome.site = "chain" /\ last_outcome.body = "completion"
    /\ result = last_outcome.content
    /\ Len(attempts) >= 2
    /\ Len(attempts) < Len(models_to_try)

\* C2: after a candidate's attempt returned HTTP 401 no later candidate of
\* the chain is attempted in that request; the request is finished or about
\* to make the last-resort attempt, which happens only with OpenAI
\* credentials configured, and the only attempt that may follow is that one.
C2_FatalShortCircuit ==
    /\ [](LET fatal == /\ last_outcome.site = "chain"
                       /\ last_outcome.kind = "http" /\ last_outcome.status = 401
          IN fatal => /\ pc \in {"openai", "done"}
                      /\ (pc = "openai" => Truthy(settings.OPENAI_API_KEY)))
    /\ [][LET fatal == /\ last_outcome.site = "chain"
                       /\ last_outcome.kind = "http" /\ last_outcome.status = 401
          IN (fatal /\ attempts' # attempts /\ attempts' # <<>>)
             => /\ attempts' = Append(attempts,
                      [provider |-> "openai", model |-> settings.OPENAI_MODEL])
                /\ self.provider # "openai"
                /\ pc' = "done"]_vars

\* C2 witness: a 401 on a candidate that was not the last one of the chain,
\* followed by the last-resort attempt
C2_Witness ==
    /\ pc = "done"
    /\ last_outcome.site = "openai"
    /\ last_error = "Invalid API Key"
    /\ Len(attempts) >= 2
    /\ Len(attempts) - 1 < Len(models_to_try)

\* C3 as stated: within one call no (provider, model id) pair receives more
\* than one completion request.
C3_AtMostOncePerCandidate ==
    \A i, j \in 1..Len(attempts) : i # j => attempts[i] # attempts[j]

\* C4 as stated: a request whose primary chain failed while a secondary
\* provider (OpenAI, when it is not the active provider) has credentials
\* makes exactly one more attempt, against OpenAI's primary model; a request
\* whose primary chain succeeded makes none; never more than one.
C4_LastResortExactlyOnce ==
    LET cross == {i \in 1..Len(attempts) : attempts[i].provider # self.provider}
        primaryOk == /\ last_outcome.site \in {"chain", "gemini"}
                     /\ \/ last_outcome.body = "completion"
                        \/ last_outcome.kind = "text"
        secondary == self.provider # "openai" /\ Truthy(settings.OPENAI_API_KEY)
    IN
    (pc = "done" /\ attempts # <<>>)
    => /\ Cardinality(cross) <= 1
       /\ primaryOk => cross = {}
       /\ (~primaryOk /\ secondary)
            => /\ cross = {Len(attempts)}
               /\ attempts[Len(attempts)] =
                     [provider |-> "openai", model |-> settings.OPENAI_MODEL]

\* C5 as stated: when no attempt of the request succeeded, the returned string
\* is the apology phrase with the failure description of the chronologically
\* last failed attempt.
C5_ExhaustionCarriesLastFailure ==
    LET o == last_outcome
        succeeded == (o.kind = "http" /\ o.status = 200 /\ o.body = "completion")
                     \/ o.kind = "text"
        description == IF o.site = "chain" THEN ChainError(o)
                       ELSE IF o.site = "openai" THEN OpenAIError(o)
                       ELSE o.msg
    IN
    (pc = "done" /\ attempts # <<>> /\ ~succeeded)
    => result = Str(Apology(description))

\* C6 as stated: every call ends by returning a string, no exception escapes.
C6_ReturnsStringNeverRaises ==
    /\ pc # "raised"
    /\ pc = "done" => result.type = "str"

\* C7 as stated: every return value that is not a provider's completion is
\* the apology string embedding the last recorded error.
C7_SingleFailureMode ==
    LET o == last_outcome
        completion == /\ attempts # <<>>
                      /\ \/ (o.kind = "http" /\ o.status = 200 /\ o.body = "completion")
                         \/ o.kind = "text"
        recorded == IF o.site = "gemini" THEN o.msg ELSE last_error
    IN
    (pc = "done" /\ ~completion) => result = Str(Apology(recorded))

\* C8: the requests of a call are the candidate chain in order, without a
\* gap, up to some candidate, optionally followed by one attempt on OpenAI's
\* primary model; a request is issued only when the previous one of the call
\* was classified as a failure.
C8_AttemptOrder ==
    /\ [](LET chain == IF self.provider = "gemini" THEN <<self.model>> ELSE models_to_try
              n == Len(attempts)
              InChain(k) == \A i \in 1..k :
                  attempts[i] = [provider |-> self.provider, model |-> chain[i]]
          IN pc # "idle" =>
               \/ n <= Len(chain) /\ InChain(n)
               \/ /\ n >= 2 /\ n - 1 <= Len(chain) /\ InChain(n - 1)
                  /\ attempts[n] = [provider |-> "openai", model |-> settings.OPENAI_MODEL]
                  /\ self.provider # "openai")
    /\ [][LET o == last_outcome
              succeeded == (o.kind = "http" /\ o.status = 200 /\ o.body = "completion")
                           \/ o.kind = "text"
          IN (attempts' # attempts /\ attempts' # <<>>)
             => /\ Len(attempts') = Len(attempts) + 1
                /\ SubSeq(attempts', 1, Len(attempts)) = attempts
                /\ attempts # <<>> => ~succeeded]_vars

\* C8 witness: two candidates of the chain and the last-resort attempt
C8_Witness ==
    /\ Len(attempts) >= 3
    /\ attempts[Len(attempts)].provider = "openai"
    /\ attempts[1].provider = "openrouter"
    /\ attempts[2].model # attempts[1].model

\* C9 as stated: for every active provider the chain is the primary model
\* followed by the configured fallback models when the fallback flag is
\* enabled, and the primary model alone when it is disabled.
C9_Original ==
    pc = "loop" =>
        models_to_try = IF settings.ENABLE_MODEL_FALLBACK
                          THEN <<self.model>> \o settings.OPENROUTER_FALLBACK_MODELS
                          ELSE <<self.model>>

\* C9 (amended): for OpenRouter the chain is its primary model followed by the
\* configured fallback models in configured order when the fallback flag is
\* enabled, and the primary model alone when it is disabled; for every other
\* provider it is the primary model alone whatever the flag (Gemini builds
\* no chain and requests its primary model only).
C9_ChainComposition ==
    LET primary == IF self.provider = "openrouter" THEN settings.OPENROUTER_MODEL
                   ELSE IF self.provider = "openai" THEN settings.OPENAI_MODEL
                   ELSE settings.GEMINI_MODEL
        fallbacks == IF self.provider = "openrouter"
                       THEN settings.OPENROUTER_FALLBACK_MODELS ELSE <<>>
        expected == IF settings.ENABLE_MODEL_FALLBACK
                      THEN <<primary>> \o fallbacks ELSE <<primary>>
    IN
    /\ pc \in {"loop", "openai"} => models_to_try = expected
    /\ (pc = "done" /\ last_outcome.site \in {"chain", "openai"}) => models_to_try = expected
    /\ last_outcome.site = "gemini"
         => attempts = <<[provider |-> "gemini", model |-> primary]>> /\ expected = <<primary>>

\* C9 witness: a chain of the primary model and two configured fallbacks
C9_Witness ==
    /\ pc = "loop"
    /\ settings.ENABLE_MODEL_FALLBACK
    /\ Len(settings.OPENROUTER_FALLBACK_MODELS) = 2
    /\ models_to_try = <<settings.OPENROUTER_MODEL>> \o settings.OPENROUTER_FALLBACK_MODELS
    /\ models_to_try[2] # models_to_try[3]

\* C10: after a candidate's attempt ended with HTTP 429, 402, 404, 400, a
\* status >= 500 or a network/timeout exception, the failure reason is the
\* last error and, when the chain has a next candidate, the request is still
\* running and its next request goes to that candidate.
C10_RetryableAdvances ==
    /\ [](LET o == last_outcome
              retryable == /\ o.site = "chain"
                           /\ \/ o.kind = "RequestException"
                              \/ /\ o.kind = "http"
                                 /\ (o.status \in {429, 402, 404, 400} \/ o.status >= 500)
              reason == IF o.kind = "RequestException" THEN o.msg
                        ELSE "HTTP " \o ToString(o.status) \o ": " \o ResponseText(o)
              hasNext == Len(attempts) < Len(models_to_try)
          IN retryable =>
               /\ last_error = reason
               /\ hasNext => (pc = "loop" /\ idx = Len(attempts) + 1 /\ result = Pending))
    /\ [][LET o == last_outcome
              retryable == /\ o.site = "chain"
                           /\ \/ o.kind = "RequestException"
                              \/ /\ o.kind = "http"
                                 /\ (o.status \in {429, 402, 404, 400} \/ o.status >= 500)
              hasNext == Len(attempts) < Len(models_to_try)
          IN (retryable /\ hasNext /\ attempts' # attempts)
             => attempts' = Append(attempts,
                   [provider |-> self.provider,
                    model |-> models_to_try[Len(attempts) + 1]])]_vars

\* C10 witness: a 429 on the first candidate, the second candidate is next
C10_Witness ==
    /\ pc = "loop"
    /\ last_outcome.site = "chain" /\ last_outcome.status = 429
    /\ idx = 2
    /\ Len(models_to_try) >= 2
    /\ last_error = "HTTP 429: {error}"

----------------------------------------------------------------------------
(* RAG service: documents, chunking, persistence *)

\* most texts add_documents appends to one index
MaxAdded == 1

\* files an operator puts into the docs folder; bad.pdf cannot be parsed,
\* empty.txt has no text
DirFiles == {"a.pdf", "bad.pdf", "empty.txt"}

WelcomeFile == "welcome.txt"

\* line 105: page_content of the placeholder document
PlaceholderChunk == "LegalLink knowledge base initialized."

\* line 74: content of welcome.txt
WelcomeChunk ==
    "Welcome to LegalLink! Upload your legal documents to this folder for AI-powered assistance."

AddedText == "added text"

\* RecursiveCharacterTextSplitter.split_documents on the file of the docs
\* folder (line 108-113)
FileChunks(f) ==
    IF f = "a.pdf" THEN <<"a.pdf chunk 1", "a.pdf chunk 2">>
    ELSE IF f = WelcomeFile THEN <<WelcomeChunk>>
    ELSE <<>>

\* the uploaded file of a document: extension of file_path, whether the
\* loader can read it, and the chunks the splitter makes of it (line 141-149)
DocFile(d) ==
    IF d = "d1" THEN [ext |-> ".PDF", chunks |-> <<"d1 chunk 1", "d1 chunk 2">>]
    ELSE IF d = "d2" THEN [ext |-> ".txt", chunks |-> <<"d2 chunk 1">>]
    ELSE IF d = "d3" THEN [ext |-> ".png", chunks |-> <<>>]
    ELSE [ext |-> ".txt", chunks |-> <<>>]

\* line 132: str.lower() on the extension
LowerExt(e) == IF e = ".PDF" THEN ".pdf" ELSE e

\* line 133-139: the extensions a loader exists for
SupportedExt(e) == e = ".pdf" \/ e = ".txt"

\* line 79-88: DirectoryLoader(glob="**/*.pdf").load() raises on the first
\* file it cannot parse and the except clause leaves no PDF document
LoadPdfs(files) ==
    IF "bad.pdf" \in files THEN <<>>
    ELSE IF "a.pdf" \in files THEN FileChunks("a.pdf")
    ELSE <<>>

\* line 91-100
LoadTxts(files) ==
    IF WelcomeFile \in files THEN FileChunks(WelcomeFile) ELSE <<>>

\* line 102: documents is not empty
HasDocuments(files) ==
    LoadPdfs(files) # <<>> \/ files \cap {WelcomeFile, "empty.txt"} # {}

BuildChunks_NoPlaceholder(files) ==
    LoadPdfs(files) \o LoadTxts(files)

\* line 76-113: the chunks _build_index embeds for a docs folder
BuildChunks(files) ==
    IF ~HasDocuments(files)
      THEN <<PlaceholderChunk>>
      ELSE LoadPdfs(files) \o LoadTxts(files)

\* FAISS.from_documents / add_texts: embedding needs self.embeddings, the
\* model must answer, and from_documents needs at least one chunk
CanEmbed(emb, chunks, emb_ok) ==
    emb /\ emb_ok /\ chunks # <<>>

\* how a save_local call ends: all files written, or the write of
\* index.faiss fails midway and leaves it partially written
SaveOutcomes == {"ok", "fail_mid"}

\* FAISS.save_local: index.faiss is written first, then index.pkl, in place
SaveLocal(entry, chunks, outcome) ==
    IF outcome = "ok"
      THEN [faiss |-> CompleteFile(chunks), pkl |-> CompleteFile(chunks)]
      ELSE [faiss |-> PartialFile, pkl |-> entry.pkl]

\* os.path.exists(doc_index_path), line 177
DocDirExists(entry) ==
    entry.faiss.state # "absent" \/ entry.pkl.state # "absent"

\* FAISS.load_local succeeds when both files are complete
Loadable(entry) ==
    entry.faiss.state = "complete" /\ entry.pkl.state = "complete"

\* the store FAISS.load_local returns
LoadLocal(entry) == Store(entry.pkl.data)

\* line 174-186: _get_document_vector_store, None when the directory is
\* absent or load_local raises
GetDocumentVectorStore(d) ==
    IF DocDirExists(disk[d]) /\ Loadable(disk[d]) THEN LoadLocal(disk[d]) ELSE NoStore

----------------------------------------------------------------------------
(* RAG service: retrieval *)

\* L2 distance of the query to a chunk, in tenths
Distance10(c) ==
    IF c = "d1 chunk 1" THEN 0
    ELSE IF c = "a.pdf chunk 1" THEN 5
    ELSE IF c = AddedText THEN 5
    ELSE IF c = "d2 chunk 1" THEN 8
    ELSE IF c = "a.pdf chunk 2" THEN 15
    ELSE IF c = "d1 chunk 2" THEN 15
    ELSE IF c = WelcomeChunk THEN 20
    ELSE 30

\* rank of position i among the chunks: closest first, ties by position
RankOf(chunks, i) ==
    1 + Cardinality({j \in 1..Len(chunks) :
            \/ Distance10(chunks[j]) < Distance10(chunks[i])
            \/ Distance10(chunks[j]) = Distance10(chunks[i]) /\ j < i})

Min(a, b) == IF a < b THEN a ELSE b

\* similarity_search_with_score(query, k): the k nearest chunks, closest first
Nearest(chunks, k) ==
    [r \in 1..Min(k, Len(chunks)) |->
        chunks[CHOOSE i \in 1..Len(chunks) : RankOf(chunks, i) = r]]

Relevant_AtMost(c, threshold10) ==
    100 =< threshold10 * (10 + Distance10(c))

Relevant_Strict(c, threshold10) ==
    100 > threshold10 * (10 + Distance10(c))

\* line 218-220: similarity = 1 / (1 + distance) >= relevance_threshold,
\* threshold in tenths
Relevant(c, threshold10) ==
    100 >= threshold10 * (10 + Distance10(c))

\* line 211: the nearest-neighbour query raises without an embedding model,
\* for k < 1, or when the library fails
QueryRaises(emb, k, nn_ok) ==
    ~emb \/ k < 1 \/ ~nn_ok

SearchCatches_None(raises) ==
    FALSE

\* line 225, 247: except Exception
SearchCatches(raises) ==
    TRUE

\* line 205-227: search on the store that was chosen
SearchStore(store, emb, k, threshold10, nn_ok) ==
    LET Keep(c) == Relevant(c, threshold10) IN
    IF ~store.present THEN <<>>
    ELSE IF QueryRaises(emb, k, nn_ok) THEN <<>>
    ELSE SelectSeq(Nearest(store.chunks, k), Keep)

StoreToUse_GlobalOnly(d) ==
    vector_store

StoreToUse_NoFallback(d) ==
    IF d # "" THEN GetDocumentVectorStore(d) ELSE vector_store

\* line 193-203: the store a search uses
StoreToUse(d) ==
    IF d # "" /\ GetDocumentVectorStore(d).present
      THEN GetDocumentVectorStore(d)
      ELSE vector_store

\* line 239-246: similarity rounded to four places, in ten-thousandths
SimilarityScore(c) ==
    (200000 + (10 + Distance10(c))) \div (2 * (10 + Distance10(c)))

\* metadata "source" of a chunk (line 106, 156, 244)
SourceOf(c) ==
    IF c = PlaceholderChunk THEN "system"
    ELSE IF c = AddedText THEN "unknown"
    ELSE IF c = WelcomeChunk THEN WelcomeFile
    ELSE IF c \in {"a.pdf chunk 1", "a.pdf chunk 2"} THEN "a.pdf"
    ELSE IF c \in {"d1 chunk 1", "d1 chunk 2"} THEN "d1.PDF"
    ELSE "d2.txt"

\* line 238-246: one result entry of search_with_scores
ScoredHit(c) ==
    [content |-> c, similarity_score |-> SimilarityScore(c), source |-> SourceOf(c)]

\* the record of a finished call
Returned(op, d, k, threshold10, ret, hits) ==
    [op |-> op, doc |-> d, k |-> k, threshold |-> threshold10, ret |-> ret, hits |-> hits]

\* line 66-122: _build_index on the current docs folder; what it leaves
\* behind and whether it raised
BuildIndex(emb, emb_ok, outcome) ==
    LET dir == IF docs_dir.exists THEN docs_dir
               ELSE [exists |-> TRUE, files |-> {WelcomeFile}]
        chunks == BuildChunks(dir.files)
    IN  IF ~CanEmbed(emb, chunks, emb_ok)
          THEN [docs_dir |-> dir, vector_store |-> vector_store,
                entry |-> disk[GlobalKey], index_dir |-> index_dir, raised |-> TRUE]
          ELSE [docs_dir |-> dir, vector_store |-> Store(chunks),
                entry |-> SaveLocal(disk[GlobalKey], chunks, outcome),
                index_dir |-> TRUE, raised |-> outcome # "ok"]

BoolRet(ok) == IF ok THEN "True" ELSE "False"

----------------------------------------------------------------------------
(* RAG service: operations *)

\* line 36-64
initialize(init_ok, emb_ok, outcome) ==
    /\ ~embeddings
    /\ embeddings' = init_ok
    /\ IF ~init_ok
         THEN /\ UNCHANGED <<docs_dir, index_dir, disk, vector_store>>
              /\ call' = Returned("initialize", "", 0, 0, "False", <<>>)
         ELSE IF index_dir
           THEN /\ vector_store' = IF Loadable(disk[GlobalKey])
                                     THEN LoadLocal(disk[GlobalKey]) ELSE vector_store
                /\ UNCHANGED <<docs_dir, index_dir, disk>>
                /\ call' = Returned("initialize", "", 0, 0,
                                    BoolRet(Loadable(disk[GlobalKey])), <<>>)
           ELSE LET b == BuildIndex(TRUE, emb_ok, outcome) IN
                /\ docs_dir' = b.docs_dir
                /\ vector_store' = b.vector_store
                /\ disk' = [disk EXCEPT ![GlobalKey] = b.entry]
                /\ index_dir' = b.index_dir
                /\ call' = Returned("initialize", "", 0, 0, BoolRet(~b.raised), <<>>)
    /\ UNCHANGED threads
    /\ UNCHANGED llm_vars
    /\ UNCHANGED app_vars

\* line 265-272
rebuild_index(emb_ok, outcome) ==
    LET b == BuildIndex(embeddings, emb_ok, outcome) IN
    /\ docs_dir' = b.docs_dir
    /\ vector_store' = b.vector_store
    /\ disk' = [disk EXCEPT ![GlobalKey] = b.entry]
    /\ index_dir' = b.index_dir
    /\ call' = Returned("rebuild_index", "", 0, 0, BoolRet(~b.raised), <<>>)
    /\ UNCHANGED <<embeddings, threads>>
    /\ UNCHANGED llm_vars
    /\ UNCHANGED app_vars

\* number of added texts in a sequence of chunks
AddedCount(chunks) == Cardinality({i \in 1..Len(chunks) : chunks[i] = AddedText})

\* line 252-263
add_documents(emb_ok, outcome) ==
    /\ AddedCount(vector_store.chunks) < MaxAdded
    /\ IF ~vector_store.present \/ ~CanEmbed(embeddings, <<AddedText>>, emb_ok)
         THEN /\ UNCHANGED <<vector_store, disk, index_dir>>
              /\ call' = Returned("add_documents", "", 0, 0, "False", <<>>)
         ELSE /\ vector_store' = Store(vector_store.chunks \o <<AddedText>>)
              /\ disk' = [disk EXCEPT ![GlobalKey] =
                            SaveLocal(@, vector_store.chunks \o <<AddedText>>, outcome)]
              /\ index_dir' = TRUE
              /\ call' = Returned("add_documents", "", 0, 0, BoolRet(outcome = "ok"), <<>>)
    /\ UNCHANGED <<docs_dir, embeddings, threads>>
    /\ UNCHANGED llm_vars
    /\ UNCHANGED app_vars

\* line 124-172: what create_index_for_document returns and leaves at the
\* document's key
CreateIndex(d, load_ok, emb_ok, outcome) ==
    IF \/ ~SupportedExt(LowerExt(DocFile(d).ext))
       \/ ~load_ok
       \/ DocFile(d).chunks = <<>>
       \/ ~CanEmbed(embeddings, DocFile(d).chunks, emb_ok)
      THEN [ok |-> FALSE, entry |-> disk[DocIndexKey(d)], index_dir |-> index_dir]
      ELSE [ok |-> outcome = "ok",
            entry |-> SaveLocal(disk[DocIndexKey(d)], DocFile(d).chunks, outcome),
            index_dir |-> TRUE]

\* line 124-172
create_index_for_document(d, load_ok, emb_ok, outcome) ==
    /\ disk' = [disk EXCEPT ![DocIndexKey(d)] =
                  CreateIndex(d, load_ok, emb_ok, outcome).entry]
    /\ index_dir' = CreateIndex(d, load_ok, emb_ok, outcome).index_dir
    /\ call' = Returned("create_index_for_document", d, 0, 0,
                        BoolRet(CreateIndex(d, load_ok, emb_ok, outcome).ok), <<>>)
    /\ UNCHANGED <<docs_dir, embeddings, vector_store, threads>>
    /\ UNCHANGED llm_vars
    /\ UNCHANGED app_vars

\* what a query on a store returns: the list, or the exception that escapes
QueryReturn(store, k, threshold10, nn_ok) ==
    IF store.present /\ QueryRaises(embeddings, k, nn_ok)
         /\ ~SearchCatches(QueryRaises(embeddings, k, nn_ok))
      THEN [ret |-> "raised", hits |-> <<>>]
      ELSE [ret |-> "list", hits |-> SearchStore(store, embeddings, k, threshold10, nn_ok)]

\* line 188-227
search(d, k, threshold10, nn_ok) ==
    /\ call' = Returned("search", d, k, threshold10,
                        QueryReturn(StoreToUse(d), k, threshold10, nn_ok).ret,
                        QueryReturn(StoreToUse(d), k, threshold10, nn_ok).hits)
    /\ UNCHANGED <<docs_dir, index_dir, disk, embeddings, vector_store, threads>>
    /\ UNCHANGED llm_vars
    /\ UNCHANGED app_vars

\* line 229-249
search_with_scores(k, nn_ok) ==
    LET r == QueryReturn(vector_store, k, 0, nn_ok) IN
    /\ call' = Returned("search_with_scores", "", k, 0, r.ret,
                        [i \in 1..Len(r.hits) |-> ScoredHit(r.hits[i])])
    /\ UNCHANGED <<docs_dir, index_dir, disk, embeddings, vector_store, threads>>
    /\ UNCHANGED llm_vars
    /\ UNCHANGED app_vars

\* main.py line 24-33: the process is started again; the service object is
\* constructed anew and the files stay
restart ==
    /\ embeddings
    /\ embeddings' = FALSE
    /\ vector_store' = NoStore
    /\ call' = NoCall
    /\ UNCHANGED <<docs_dir, index_dir, disk, threads>>
    /\ UNCHANGED llm_vars
    /\ UNCHANGED app_vars

\* an operator adds a document to the docs folder
PutFile(f) ==
    /\ docs_dir.exists
    /\ f \notin docs_dir.files
    /\ docs_dir' = [docs_dir EXCEPT !.files = @ \cup {f}]
    /\ UNCHANGED <<index_dir, disk, embeddings, vector_store, call, threads>>
    /\ UNCHANGED llm_vars
    /\ UNCHANGED app_vars

\* an operator removes a document from the docs folder
RemoveFile(f) ==
    /\ docs_dir.exists
    /\ f \in docs_dir.files
    /\ docs_dir' = [docs_dir EXCEPT !.files = @ \ {f}]
    /\ UNCHANGED <<index_dir, disk, embeddings, vector_store, call, threads>>
    /\ UNCHANGED llm_vars
    /\ UNCHANGED app_vars

\* (k, relevance_threshold in tenths) of the searches that are explored
SearchArgs == {<<2, 4>>, <<0, 4>>, <<2, 11>>}
SearchDocs == {"", "d1"}

\* documents create_index_for_document is called for one call at a time
BuildDocs == {"d1", "d3", "d4"}

\* the step of a call at which the environment fails, if any
Faults == {"none", "init", "load", "embed", "write"}

\* how save_local ends under a fault
SaveOutcome(fault) == IF fault = "write" THEN "fail_mid" ELSE "ok"

\* the LLM service is idle while the RAG service is exercised
LlmIdle ==
    /\ settings = [PROVIDER |-> "openrouter", OPENROUTER_API_KEY |-> "",
                   OPENROUTER_MODEL |-> DefaultOpenRouterModel,
                   OPENROUTER_FALLBACK_MODELS |-> DefaultFallbackModels,
                   ENABLE_MODEL_FALLBACK |-> TRUE, OPENAI_API_KEY |-> "",
                   OPENAI_MODEL |-> DefaultOpenAIModel, GEMINI_API_KEY |-> "",
                   GEMINI_MODEL |-> DefaultGeminiModel]
    /\ self = LLMService(settings)
    /\ pc = "idle"
    /\ models_to_try = <<>>
    /\ idx = 0
    /\ last_error = "None"
    /\ attempts = <<>>
    /\ last_outcome = NoOutcome
    /\ result = Pending
    /\ chat_history = <<>>
    /\ messages = <<>>
    /\ payload = NoPayload

RagInit == LlmIdle /\ RagConstructed /\ AppStarted

RagNext ==
    \/ \E fault \in Faults \ {"load"} :
          initialize(fault # "init", fault # "embed", SaveOutcome(fault))
    \/ \E fault \in Faults \ {"init", "load"} :
          rebuild_index(fault # "embed", SaveOutcome(fault))
    \/ \E fault \in Faults \ {"init", "load"} :
          add_documents(fault # "embed", SaveOutcome(fault))
    \/ \E d \in BuildDocs, fault \in Faults \ {"init"} :
          create_index_for_document(d, fault # "load", fault # "embed", SaveOutcome(fault))
    \/ \E d \in SearchDocs, a \in SearchArgs, nn_ok \in BOOLEAN :
          search(d, a[1], a[2], nn_ok)
    \/ \E a \in SearchArgs, nn_ok \in BOOLEAN : search_with_scores(a[1], nn_ok)
    \/ \E f \in DirFiles : PutFile(f)
    \/ \E f \in DirFiles : RemoveFile(f)
    \/ restart

RagSpec == RagInit /\ [][RagNext]_vars

----------------------------------------------------------------------------
(* Concurrent document-scoped chat sends (endpoints run on worker threads) *)

\* chat.py line 93: k of the search a chat send makes
ChatK == 4

\* rag_service.py line 188: default relevance_threshold 0.4, in tenths
DefaultThreshold10 == 4

Workers == {1, 2}

\* documents the concurrent sends are scoped to
RaceDocs == {"d1", "d2"}

\* a worker about to call create_index_for_document for document d
Sending(d) == [pc |-> "start", doc |-> d, served |-> "none", hits |-> <<>>]

\* the global store after a successful initialize on an empty docs folder
InitializedStore == Store(BuildChunks({}))

RaceInit ==
    /\ LlmIdle
    /\ AppStarted
    /\ docs_dir = [exists |-> TRUE, files |-> {}]
    /\ index_dir = TRUE
    /\ \E built \in SUBSET RaceDocs :
          disk = [key \in IndexKeys |->
                    IF key = GlobalKey
                      THEN SaveLocal(NoIndex, InitializedStore.chunks, "ok")
                    ELSE IF key \in built
                      THEN SaveLocal(NoIndex, DocFile(key).chunks, "ok")
                    ELSE NoIndex]
    /\ embeddings = TRUE
    /\ vector_store = InitializedStore
    /\ call = NoCall
    /\ threads \in [Workers -> {Sending(d) : d \in RaceDocs}]

RaceUnchanged ==
    /\ UNCHANGED <<docs_dir, embeddings, vector_store, call>>
    /\ UNCHANGED llm_vars
    /\ UNCHANGED app_vars

\* line 165, faiss.write_index opens index.faiss for writing
write_index_open(t) ==
    /\ threads[t].pc = "start"
    /\ disk' = [disk EXCEPT ![threads[t].doc].faiss = PartialFile]
    /\ index_dir' = TRUE
    /\ threads' = [threads EXCEPT ![t].pc = "faiss_open"]
    /\ RaceUnchanged

\* line 165, index.faiss is written completely and closed
write_index_close(t) ==
    /\ threads[t].pc = "faiss_open"
    /\ disk' = [disk EXCEPT ![threads[t].doc].faiss = CompleteFile(DocFile(threads[t].doc).chunks)]
    /\ threads' = [threads EXCEPT ![t].pc = "faiss_closed"]
    /\ UNCHANGED index_dir
    /\ RaceUnchanged

\* line 165, index.pkl is opened for writing
pickle_dump_open(t) ==
    /\ threads[t].pc = "faiss_closed"
    /\ disk' = [disk EXCEPT ![threads[t].doc].pkl = PartialFile]
    /\ threads' = [threads EXCEPT ![t].pc = "pkl_open"]
    /\ UNCHANGED index_dir
    /\ RaceUnchanged

\* line 165-168, index.pkl is written and create_index_for_document returns True
pickle_dump_close(t) ==
    /\ threads[t].pc = "pkl_open"
    /\ disk' = [disk EXCEPT ![threads[t].doc].pkl = CompleteFile(DocFile(threads[t].doc).chunks)]
    /\ threads' = [threads EXCEPT ![t].pc = "built"]
    /\ UNCHANGED index_dir
    /\ RaceUnchanged

\* the result of the search on the global store (line 203, fallback)
ServedGlobal(t) ==
    [threads[t] EXCEPT !.pc = "done", !.served = "global",
        !.hits = SearchStore(vector_store, embeddings, ChatK, DefaultThreshold10, TRUE)]

\* line 177-180, load_local reads index.faiss; a file being written does not
\* parse, the exception is caught at line 183 and search falls back
read_index(t) ==
    /\ threads[t].pc = "built"
    /\ threads' = [threads EXCEPT ![t] =
          IF disk[threads[t].doc].faiss.state = "complete"
            THEN [@ EXCEPT !.pc = "faiss_read"]
            ELSE ServedGlobal(t)]
    /\ UNCHANGED <<disk, index_dir>>
    /\ RaceUnchanged

\* line 180, load_local reads index.pkl, then line 205-227 on the loaded store
pickle_load(t) ==
    /\ threads[t].pc = "faiss_read"
    /\ threads' = [threads EXCEPT ![t] =
          IF disk[threads[t].doc].pkl.state = "complete"
            THEN [@ EXCEPT !.pc = "done", !.served = "document",
                     !.hits = SearchStore(LoadLocal(disk[threads[t].doc]), embeddings,
                                          ChatK, DefaultThreshold10, TRUE)]
            ELSE ServedGlobal(t)]
    /\ UNCHANGED <<disk, index_dir>>
    /\ RaceUnchanged

RaceNext ==
    \E t \in Workers :
        \/ write_index_open(t)
        \/ write_index_close(t)
        \/ pickle_dump_open(t)
        \/ pickle_dump_close(t)
        \/ read_index(t)
        \/ pickle_load(t)

RaceSpec == RaceInit /\ [][RaceNext]_vars

\* a worker is between opening index.faiss and closing index.pkl
Writing(t) == threads[t].pc \in {"faiss_open", "faiss_closed", "pkl_open"}

\* a worker is inside load_local
Reading(t) == threads[t].pc \in {"faiss_read"}

\* C12: build and search on one index key are mutually exclusive: no worker
\* loads a document's index while another worker is writing it, and a search
\* that follows a successful build of its document is served from that
\* document's index
C12_BuildSearchExclusive ==
    /\ \A t, u \in Workers :
          t # u /\ threads[t].doc = threads[u].doc => ~(Reading(t) /\ Writing(u))
    /\ \A t \in Workers :
          threads[t].pc = "done" => threads[t].served = "document"

\* the index key a build call writes
BuildKey(c) == IF c.op = "create_index_for_document" THEN c.doc ELSE GlobalKey

\* C13: a rebuild_index or create_index_for_document call returns True or
\* False, and when it returns False the index persisted at its key is the one
\* persisted before the call
C13_FailedBuildKeepsIndex ==
    [][call'.op \in {"rebuild_index", "create_index_for_document"}
         => /\ call'.ret \in {"True", "False"}
            /\ call'.ret = "False" => disk'[BuildKey(call')] = disk[BuildKey(call')]]_vars

\* a step that is a call of search: it records the call and changes nothing
SearchStep ==
    /\ call'.op = "search"
    /\ UNCHANGED <<docs_dir, index_dir, disk, embeddings, vector_store>>

DocIndexChunks(d) ==
    IF Loadable(disk[d])
      THEN {disk[d].pkl.data[i] : i \in 1..Len(disk[d].pkl.data)}
      ELSE {}

----------------------------------------------------------------------------
(* search as a function of the store, k and the threshold *)

\* most chunks in a store that is searched
MaxStoreLen == 3

\* largest k that is searched with
MaxK == 4

\* relevance thresholds in tenths: 0.0 .. 1.1
Thresholds == 0..11

ChunkPool ==
    {"d1 chunk 1", "a.pdf chunk 1", AddedText, "d2 chunk 1", "a.pdf chunk 2",
     PlaceholderChunk}

\* the stores FAISS can hold: sequences of distinct chunks
Stores ==
    {Store(c) : c \in {q \in SeqsUpTo(ChunkPool, MaxStoreLen) :
                          \A i, j \in 1..Len(q) : i # j => q[i] # q[j]}}

SearchInit ==
    /\ LlmIdle
    /\ AppStarted
    /\ docs_dir = [exists |-> TRUE, files |-> {}]
    /\ index_dir = FALSE
    /\ disk = [key \in IndexKeys |-> NoIndex]
    /\ embeddings = TRUE
    /\ vector_store \in Stores \ {Store(<<>>)}
    /\ call = NoCall
    /\ threads = <<>>

SearchNext ==
    \E k \in 0..MaxK, t \in Thresholds : search("", k, t, TRUE)

SearchSpec == SearchInit /\ [][SearchNext]_vars

\* position of a chunk in the searched store
PosInStore(c) == CHOOSE i \in 1..Len(vector_store.chunks) : vector_store.chunks[i] = c

\* chunk c is nearer to the query than chunk e, ties by position in the store
Nearer(c, e) ==
    \/ Distance10(c) < Distance10(e)
    \/ Distance10(c) = Distance10(e) /\ PosInStore(c) < PosInStore(e)

\* C16: search returns at most k chunks, each with similarity 1/(1+distance)
\* at least the threshold, closest first with ties in neighbour rank order,
\* and omits no chunk among the k nearest that passes the threshold
C16_ResultShape ==
    call.op = "search" =>
      /\ call.ret = "list"
      /\ Len(call.hits) =< call.k
      /\ \A i \in 1..Len(call.hits) :
            /\ \E j \in 1..Len(vector_store.chunks) : vector_store.chunks[j] = call.hits[i]
            /\ 100 >= call.threshold * (10 + Distance10(call.hits[i]))
      /\ \A i, j \in 1..Len(call.hits) : i < j => Nearer(call.hits[i], call.hits[j])
      /\ \A p \in 1..Len(vector_store.chunks) :
            /\ Cardinality({q \in 1..Len(vector_store.chunks) :
                   Nearer(vector_store.chunks[q], vector_store.chunks[p])}) < call.k
            /\ 100 >= call.threshold * (10 + Distance10(vector_store.chunks[p]))
            => \E i \in 1..Len(call.hits) : call.hits[i] = vector_store.chunks[p]

\* a search with k = 2 on three chunks returned two equally distant chunks in
\* store order and dropped the third
C16_Witness ==
    /\ call.op = "search"
    /\ Len(vector_store.chunks) = 3
    /\ call.k = 2
    /\ Len(call.hits) = 2
    /\ Distance10(call.hits[1]) = Distance10(call.hits[2])
    /\ PosInStore(call.hits[1]) > 1

RECURSIVE IsSubseq(_, _)
\* a is b with some elements left out
IsSubseq(a, b) ==
    IF a = <<>> THEN TRUE
    ELSE IF b = <<>> THEN FALSE
    ELSE IF Head(a) = Head(b) THEN IsSubseq(Tail(a), Tail(b))
    ELSE IsSubseq(a, Tail(b))

\* C17: for a fixed store, query and k, the result for any threshold at least
\* the one searched with is a subsequence of the result returned
C17_MonotoneFiltering ==
    call.op = "search" =>
      \A t2 \in Thresholds :
          call.threshold =< t2 =>
            /\ IsSubseq(SearchStore(vector_store, embeddings, call.k, t2, TRUE), call.hits)
            /\ Len(SearchStore(vector_store, embeddings, call.k, t2, TRUE)) =< Len(call.hits)

\* a search returned three chunks of which a higher threshold keeps one
C17_Witness ==
    /\ call.op = "search"
    /\ Len(call.hits) = 3
    /\ \E t2 \in Thresholds :
          /\ call.threshold < t2
          /\ Len(SearchStore(vector_store, embeddings, call.k, t2, TRUE)) = 1

\* a step that is a call of search or search_with_scores
QueryStep ==
    /\ call'.op \in {"search", "search_with_scores"}
    /\ UNCHANGED <<docs_dir, index_dir, disk, embeddings, vector_store>>

OperationStep == docs_dir.exists => UNCHANGED docs_dir

\* a step in which _build_index runs and the environment does not fail
FaultlessBuildStep ==
    \/ embeddings /\ rebuild_index(TRUE, "ok")
    \/ ~index_dir /\ initialize(TRUE, TRUE, "ok")

\* C19: the store in memory and every loadable index on disk hold at least
\* one chunk; a global build that finds no document yields exactly the
\* placeholder chunk; a per-document build that produces no chunks writes
\* nothing
C19_IndexNeverEmpty ==
    /\ [](/\ vector_store.present => vector_store.chunks # <<>>
          /\ \A key \in IndexKeys : Loadable(disk[key]) => disk[key].pkl.data # <<>>)
    /\ [][/\ (FaultlessBuildStep /\ ~HasDocuments(docs_dir'.files))
               => /\ call'.ret = "True"
                  /\ vector_store' = Store(<<PlaceholderChunk>>)
                  /\ Loadable(disk'[GlobalKey])
                  /\ disk'[GlobalKey].pkl.data = <<PlaceholderChunk>>
          /\ ( /\ OperationStep
               /\ call'.op = "create_index_for_document"
               /\ DocFile(call'.doc).chunks = <<>> )
               => call'.ret = "False" /\ disk' = disk]_vars

\* initialize on an empty docs folder built and persisted the placeholder index
C19_Witness ==
    /\ call.op = "initialize"
    /\ call.ret = "True"
    /\ docs_dir = [exists |-> TRUE, files |-> {}]
    /\ vector_store = Store(<<PlaceholderChunk>>)
    /\ disk[GlobalKey].pkl.data = <<PlaceholderChunk>>

\* the chunks of every document in the docs folder, PDF files first; the
\* placeholder chunk when the folder holds no text at all
DirChunks(files) ==
    LET pdf == IF "a.pdf" \in files THEN FileChunks("a.pdf") ELSE <<>>
        txt == IF WelcomeFile \in files THEN FileChunks(WelcomeFile) ELSE <<>>
    IN  IF pdf \o txt = <<>> THEN <<PlaceholderChunk>> ELSE pdf \o txt

\* C20: after rebuild_index returns True the index in memory and the index
\* on disk consist of exactly the chunks of the documents in the docs folder
\* (the placeholder when there is none), and a search made next is answered
\* from them
C20_RebuildReplaces ==
    [][OperationStep /\ call'.op = "rebuild_index" /\ call'.ret = "True"
         => /\ vector_store' = Store(DirChunks(docs_dir'.files))
            /\ Loadable(disk'[GlobalKey])
            /\ disk'[GlobalKey].pkl.data = DirChunks(docs_dir'.files)]_vars

\* C21: initialize loads the global index when one was persisted and leaves
\* it as it is; when none was persisted it builds the index from the docs
\* folder and persists it, also when per-document indices exist under the
\* index root
C21_LoadOrBuild ==
    [][initialize(TRUE, TRUE, "ok")
         => /\ Loadable(disk[GlobalKey])
                 => /\ call'.ret = "True"
                    /\ vector_store' = LoadLocal(disk[GlobalKey])
                    /\ disk' = disk
            /\ (disk[GlobalKey] = NoIndex /\ BuildChunks(docs_dir'.files) # <<>>)
                 => /\ call'.ret = "True"
                    /\ vector_store' = Store(BuildChunks(docs_dir'.files))
                    /\ Loadable(disk'[GlobalKey])
                    /\ disk'[GlobalKey].pkl.data = BuildChunks(docs_dir'.files)]_vars

----------------------------------------------------------------------------
(* The endpoints that store documents, sessions and messages *)

\* most chat messages stored while requests are explored
MaxStored == 3

Users == {"u1", "u2"}

SessionIds == {"s1", "s2"}

\* the files that are uploaded; their ids are handed out once
UploadDocs == {"d1", "d3"}

\* content type of an uploaded file, as sent by the client
ContentType(d) ==
    IF d = "d1" THEN "application/pdf"
    ELSE IF d = "d3" THEN "image/png"
    ELSE "text/plain"

\* chat.py line 357: the content types upload_chat_document accepts
AcceptedTypes == {"application/pdf", "image/jpeg", "image/png", "text/plain"}

IndexingStatus_Success(ok) == "success"

\* chat.py line 408
IndexingStatus(ok) == IF ok THEN "success" ELSE "failed"

Responded(endpoint, status, data) == [endpoint |-> endpoint, status |-> status, data |-> data]

DocRow(d, u) == [id |-> d, user_id |-> u]

SessionRow(sid, u) == [id |-> sid, user_id |-> u]

MessageRow(sid, role, content) == [session_id |-> sid, role |-> role, content |-> content]

\* db.query(...).filter(id == x).first() on a table
Rows(table, x) == {r \in table : r.id = x}

\* crud_chat.py line 76-83: the messages of a session in creation order
GetBySession(rows, sid) ==
    LET InSession(m) == m.session_id = sid IN SelectSeq(rows, InSession)

\* chat.py line 62-65: history_messages[:-1] as role/content pairs
ChatHistory(rows) ==
    [i \in 1..(Len(rows) - 1) |-> Message(rows[i].role, rows[i].content)]

\* the service after a startup on an empty docs folder
AppInit ==
    /\ LlmIdle
    /\ AppStarted
    /\ docs_dir = [exists |-> TRUE, files |-> {}]
    /\ index_dir = TRUE
    /\ disk = [key \in IndexKeys |->
                 IF key = GlobalKey
                   THEN SaveLocal(NoIndex, InitializedStore.chunks, "ok")
                   ELSE NoIndex]
    /\ embeddings = TRUE
    /\ vector_store = InitializedStore
    /\ call = NoCall
    /\ threads = <<>>

AppUnchanged ==
    /\ UNCHANGED <<docs_dir, embeddings, vector_store, call, threads>>
    /\ UNCHANGED llm_vars

\* chat.py line 340-411; a content type outside the accepted ones ends with 400
upload_rejected(ctype) ==
    /\ ctype \notin AcceptedTypes
    /\ response' = Responded("upload_chat_document", 400, <<>>)
    /\ UNCHANGED <<db, disk, index_dir>>
    /\ AppUnchanged

\* chat.py line 340-411
upload_chat_document(u, d, fault) ==
    LET built == CreateIndex(d, fault # "load", fault # "embed", SaveOutcome(fault)) IN
    /\ d \notin db.uuids
    /\ ContentType(d) \in AcceptedTypes
    /\ db' = [db EXCEPT !.documents = @ \cup {DocRow(d, u)}, !.uuids = @ \cup {d}]
    /\ disk' = [disk EXCEPT ![DocIndexKey(d)] = built.entry]
    /\ index_dir' = built.index_dir
    /\ response' = Responded("upload_chat_document", 200, <<d, IndexingStatus(built.ok)>>)
    /\ AppUnchanged

\* uploads.py line 147-182
delete_document(u, d) ==
    /\ IF Rows(db.documents, d) = {}
         THEN /\ response' = Responded("delete_document", 404, <<>>)
              /\ UNCHANGED db
       ELSE IF DocRow(d, u) \notin db.documents
         THEN /\ response' = Responded("delete_document", 403, <<>>)
              /\ UNCHANGED db
       ELSE /\ response' = Responded("delete_document", 200, <<>>)
            /\ db' = [db EXCEPT !.documents = @ \ {DocRow(d, u)}]
    /\ UNCHANGED <<disk, index_dir>>
    /\ AppUnchanged

\* what generate_response hands back to send_message
AiResponses == {Str("answer A"), NoneValue}

\* chat.py line 34-58: the session check and the rows stored before the
\* document check; new_sid is the uuid of a session that is created
SessionStage(u, sid, new_sid) ==
    IF sid # "" /\ Rows(db.sessions, sid) = {}
      THEN [status |-> 404, db |-> db, sid |-> sid]
    ELSE IF sid # "" /\ SessionRow(sid, u) \notin db.sessions
      THEN [status |-> 403, db |-> db, sid |-> sid]
    ELSE IF sid # ""
      THEN [status |-> 200, sid |-> sid,
            db |-> [db EXCEPT !.messages = Append(@, MessageRow(sid, "user", UserMessage))]]
    ELSE [status |-> 200, sid |-> new_sid,
          db |-> [db EXCEPT !.sessions = @ \cup {SessionRow(new_sid, u)},
                            !.uuids = @ \cup {new_sid},
                            !.messages = Append(@, MessageRow(new_sid, "user", UserMessage))]]

\* chat.py line 73-86: the document check
DocumentStage(u, did) ==
    IF did = "" THEN 200
    ELSE IF Rows(db.documents, did) = {} THEN 404
    ELSE IF DocRow(did, u) \notin db.documents THEN 403
    ELSE 200

\* chat.py line 17-133
send_message(u, sid, new_sid, did, ai, fault, nn_ok) ==
    LET stage == SessionStage(u, sid, new_sid)
        doc == DocumentStage(u, did)
        built == CreateIndex(did, fault # "load", fault # "embed", SaveOutcome(fault))
    IN
    /\ sid = "" => new_sid \notin db.uuids
    /\ sid # "" => new_sid = sid
    /\ Len(stage.db.messages) < MaxStored
    /\ AppUnchanged
    /\ IF stage.status # 200
         THEN /\ response' = Responded("send_message", stage.status, <<>>)
              /\ UNCHANGED <<db, disk, index_dir>>
       ELSE IF doc # 200
         THEN /\ response' = Responded("send_message", doc, <<>>)
              /\ db' = stage.db
              /\ UNCHANGED <<disk, index_dir>>
       ELSE /\ IF did # ""
                 THEN /\ disk' = [disk EXCEPT ![DocIndexKey(did)] = built.entry]
                      /\ index_dir' = built.index_dir
                 ELSE UNCHANGED <<disk, index_dir>>
            /\ IF ai = NoneValue
                 THEN /\ response' = Responded("send_message", 500, <<>>)
                      /\ db' = stage.db
                 ELSE /\ response' = Responded("send_message", 200,
                            SearchStore(StoreToUse(did)', embeddings, ChatK,
                                        DefaultThreshold10, nn_ok))
                      /\ db' = [stage.db EXCEPT !.messages =
                                  Append(@, MessageRow(stage.sid, "assistant", ai.value))]

\* document ids a client may name: the uploaded ones and one never issued
RequestDocs == {""} \cup UploadDocs \cup {"d4"}

AppNext ==
    \/ upload_rejected("application/zip")
    \/ \E u \in Users, d \in UploadDocs, fault \in {"none", "write"} :
          upload_chat_document(u, d, fault)
    \/ \E u \in Users, d \in UploadDocs \cup {"d4"} : delete_document(u, d)
    \/ \E u \in Users, sid \in {""} \cup SessionIds, new_sid \in SessionIds,
          did \in RequestDocs, ai \in AiResponses, fault \in {"none", "write"},
          nn_ok \in BOOLEAN :
          send_message(u, sid, new_sid, did, ai, fault, nn_ok)

AppSpec == AppInit /\ [][AppNext]_vars

\* C22: an upload whose file extension is neither .pdf nor .txt is accepted
\* with indexing_status "failed", its document row is stored, and no
\* persisted index is created or modified
C22_UnsupportedFailsSoftly ==
    [][\A u \in Users, d \in UploadDocs, fault \in {"none", "write"} :
          (upload_chat_document(u, d, fault) /\ ~SupportedExt(LowerExt(DocFile(d).ext)))
            => /\ response'.status = 200
               /\ response'.data = <<d, "failed">>
               /\ DocRow(d, u) \in db'.documents
               /\ disk' = disk
               /\ index_dir' = index_dir]_vars

\* the upload of the .png file d3 was answered with indexing_status "failed"
C22_Witness ==
    /\ response = Responded("upload_chat_document", 200, <<"d3", "failed">>)
    /\ disk["d3"] = NoIndex
    /\ \E u \in Users : DocRow("d3", u) \in db.documents

----------------------------------------------------------------------------
(* Calls of generate_response with a chat history *)

\* settings with the keys configured: one fallback model behind the primary
MsgSettings ==
    {s \in Settings :
        /\ s.PROVIDER \in {"openrouter", "openai", "gemini"}
        /\ s.OPENROUTER_MODEL = DefaultOpenRouterModel
        /\ s.OPENROUTER_FALLBACK_MODELS = <<"meta-llama/llama-3.2-3b-instruct:free">>
        /\ s.ENABLE_MODEL_FALLBACK
        /\ s.OPENAI_API_KEY = "sk-key"
        /\ s.GEMINI_API_KEY = "sk-key"}

\* line 35-41: the service is called with a chat_history of the caller
MsgInit ==
    /\ settings \in MsgSettings
    /\ self = LLMService(settings)
    /\ pc = "idle"
    /\ models_to_try = <<>>
    /\ idx = 0
    /\ last_error = "None"
    /\ attempts = <<>>
    /\ last_outcome = NoOutcome
    /\ result = Pending
    /\ chat_history \in Histories
    /\ messages = <<>>
    /\ payload = NoPayload
    /\ AppStarted
    /\ docs_dir = [exists |-> FALSE, files |-> {}]
    /\ index_dir = FALSE
    /\ disk = [key \in IndexKeys |-> NoIndex]
    /\ embeddings = FALSE
    /\ vector_store = NoStore
    /\ call = NoCall
    /\ threads = <<>>

MsgSpec == MsgInit /\ [][Next]_vars

\* the list the orchestrator is to send for a history h: the system prompt, the
\* last min(10, n) of the n entries of h in their order, the user message
ExpectedMessages(h) ==
    LET n == Len(h)
        m == IF n < 10 THEN n ELSE 10
    IN [i \in 1..(m + 2) |->
          IF i = 1 THEN Message("system", SystemPrompt)
          ELSE IF i = m + 2 THEN Message("user", UserMessage)
          ELSE h[n - m + i - 1]]

RECURSIVE Rendered(_)
\* a message list written out as one text, a paragraph per message
Rendered(msgs) ==
    IF msgs = <<>> THEN ""
    ELSE LET r == Head(msgs).role
             label == IF r = "system" THEN "System"
                      ELSE IF r = "user" THEN "User" ELSE "Assistant"
         IN label \o ": " \o Head(msgs).content
              \o (IF Len(msgs) = 1 THEN "" ELSE "\n\n" \o Rendered(Tail(msgs)))

\* C23: every completion request of a call with a configured key carries the
\* system prompt, then the last min(10, n) entries of the n-entry chat history
\* in their order, then the user message: as the messages array of every chain
\* candidate and of the cross-provider attempt, and as the text of the Gemini
\* prompt; the array is the same for every candidate of the call
C23_MessagesOfEveryAttempt ==
    payload # NoPayload
      => /\ payload.contents = ""
              => payload.messages = ExpectedMessages(chat_history)
         /\ payload.contents # ""
              => payload.contents = Rendered(ExpectedMessages(chat_history))
         /\ messages = ExpectedMessages(chat_history)

C23_Witness ==
    /\ Len(chat_history) > HistoryLimit
    /\ Len(attempts) = 3
    /\ payload.model = DefaultOpenAIModel
    /\ Len(payload.messages) = HistoryLimit + 2
    /\ payload.messages[2] = Turn(Len(chat_history) - HistoryLimit + 1)

\* C24: once the delete-document operation for a document has completed, no
\* persisted index remains under the key of that document
C24_DeleteRemovesIndex ==
    [][\A u \in Users, d \in UploadDocs :
          (delete_document(u, d) /\ response'.status = 200)
            => disk'[d] = NoIndex]_vars

\* a request to send_message has just been answered with 404 or 403
RejectedSendStep ==
    /\ response'.endpoint = "send_message"
    /\ response'.status \in {403, 404}

\* C28: a send_message request that ends with 404 or 403 leaves the stored
\* chat sessions and chat messages exactly as they were before the request
C28_RejectedSendChangesNothing ==
    [][RejectedSendStep
         => /\ db'.sessions = db.sessions
            /\ db'.messages = db.messages]_vars

----------------------------------------------------------------------------
(* The global index in memory and on disk *)

\* a call of initialize, rebuild_index or add_documents has just completed
GlobalIndexStep ==
    \E fault \in Faults :
        \/ initialize(fault # "init", fault # "embed", SaveOutcome(fault))
        \/ rebuild_index(fault # "embed", SaveOutcome(fault))
        \/ add_documents(fault # "embed", SaveOutcome(fault))

\* the store searches are served from holds what the persisted global index
\* holds
MemoryAgreesWithDisk ==
    vector_store.present
      => /\ Loadable(disk[GlobalKey])
         /\ vector_store.chunks = LoadLocal(disk[GlobalKey]).chunks

\* C25: after every completed initialize, rebuild_index or add_documents call,
\* whatever it returned, the in-memory global index has the same contents as
\* the global index persisted on disk
C25_MemoryMatchesDisk ==
    [][GlobalIndexStep => MemoryAgreesWithDisk']_vars

----------------------------------------------------------------------------
(* Two indexed documents beside the global index *)

\* documents whose files can be indexed
KeyDocs == {"d1", "d2"}

\* the service was initialized on an empty docs folder; no document is indexed
KeyInit == AppInit

KeyNext ==
    \/ \E d \in KeyDocs, fault \in {"none", "embed", "write"} :
          create_index_for_document(d, TRUE, fault # "embed", SaveOutcome(fault))
    \/ \E fault \in {"none", "embed", "write"} :
          rebuild_index(fault # "embed", SaveOutcome(fault))
    \/ \E fault \in {"none", "embed", "write"} :
          add_documents(fault # "embed", SaveOutcome(fault))
    \/ PutFile("a.pdf")

KeySpec == KeyInit /\ [][KeyNext]_vars

\* C26: create_index_for_document(d) leaves the global index, in memory and on
\* disk, and the persisted index of every other document unchanged;
\* rebuild_index and add_documents leave every per-document index unchanged
C26_KeysIsolated ==
    [][\A fault \in {"none", "embed", "write"} :
          /\ \A d \in KeyDocs :
                create_index_for_document(d, TRUE, fault # "embed", SaveOutcome(fault))
                  => /\ vector_store' = vector_store
                     /\ \A key \in IndexKeys \ {d} : disk'[key] = disk[key]
          /\ (\/ rebuild_index(fault # "embed", SaveOutcome(fault))
              \/ add_documents(fault # "embed", SaveOutcome(fault)))
                  => \A d \in DocIds : disk'[d] = disk[d]]_vars

C26_Witness ==
    /\ call.op = "create_index_for_document"
    /\ call.doc = "d2"
    /\ Loadable(disk["d1"])
    /\ Loadable(disk["d2"])
    /\ Loadable(disk[GlobalKey])
    /\ disk[GlobalKey].pkl.data = <<"a.pdf chunk 1", "a.pdf chunk 2", AddedText>>

----------------------------------------------------------------------------
(* Concurrent sends on one chat session (endpoints run on worker threads) *)

\* the message of the request worker t serves
Question(t) == "question " \o ToString(t)

\* a request to send_message that has not run yet; before is the content of
\* the session when the request stores its message
SendRequest == [pc |-> "start", before |-> <<>>, history |-> <<>>]

\* session s1 of user u1 exists: empty, with an unanswered message, or with
\* one earlier exchange
SendInit ==
    /\ LlmIdle
    /\ docs_dir = [exists |-> TRUE, files |-> {}]
    /\ index_dir = TRUE
    /\ disk = [key \in IndexKeys |->
                 IF key = GlobalKey
                   THEN SaveLocal(NoIndex, InitializedStore.chunks, "ok")
                   ELSE NoIndex]
    /\ embeddings = TRUE
    /\ vector_store = InitializedStore
    /\ call = NoCall
    /\ response = NoResponse
    /\ \E earlier \in {<<>>, <<MessageRow("s1", "user", "turn 1")>>,
                         <<MessageRow("s1", "user", "turn 1"),
                           MessageRow("s1", "assistant", "turn 2")>>} :
          db = [documents |-> {}, sessions |-> {SessionRow("s1", "u1")},
                messages |-> earlier, uuids |-> {"s1"}]
    /\ threads = [t \in Workers |-> SendRequest]

SendUnchanged ==
    /\ UNCHANGED <<docs_dir, index_dir, disk, embeddings, vector_store, call>>
    /\ UNCHANGED llm_vars

\* chat.py line 55-58: the user message is stored and committed
save_user_message(t) ==
    /\ threads[t].pc = "start"
    /\ Len(db.messages) < MaxStored
    /\ db' = [db EXCEPT !.messages = Append(@, MessageRow("s1", "user", Question(t)))]
    /\ threads' = [threads EXCEPT ![t].pc = "stored",
                                  ![t].before = GetBySession(db.messages, "s1")]
    /\ UNCHANGED response
    /\ SendUnchanged

\* chat.py line 61-65: the history is read back from the store
get_history(t) ==
    /\ threads[t].pc = "stored"
    /\ threads' = [threads EXCEPT ![t].pc = "read",
                      ![t].history = ChatHistory(GetBySession(db.messages, "s1"))]
    /\ UNCHANGED <<db, response>>
    /\ SendUnchanged

\* chat.py line 98-132: generate_response is called with the history and its
\* answer is stored
save_assistant_message(t, ai) ==
    /\ threads[t].pc = "read"
    /\ IF ai = NoneValue
         THEN /\ threads' = [threads EXCEPT ![t].pc = "failed"]
              /\ response' = Responded("send_message", 500, <<>>)
              /\ UNCHANGED db
         ELSE /\ threads' = [threads EXCEPT ![t].pc = "done"]
              /\ response' = Responded("send_message", 200,
                    SearchStore(vector_store, embeddings, ChatK, DefaultThreshold10, TRUE))
              /\ db' = [db EXCEPT !.messages =
                          Append(@, MessageRow("s1", "assistant", ai.value))]
    /\ SendUnchanged

SendNext ==
    \E t \in Workers :
        \/ save_user_message(t)
        \/ get_history(t)
        \/ \E ai \in AiResponses : save_assistant_message(t, ai)

SendSpec == SendInit /\ [][SendNext]_vars

\* C27: in every interleaving of send_message requests on one session, the
\* chat history a request hands to generate_response does not contain the
\* request's own user message and contains every message that was stored in
\* the session before it
C27_HistoryExcludesCurrent ==
    \A t \in Workers :
        threads[t].pc \in {"read", "done", "failed"}
          => /\ \A i \in 1..Len(threads[t].history) :
                   threads[t].history[i] # Message("user", Question(t))
             /\ \A i \in 1..Len(threads[t].before) :
                   \E j \in 1..Len(threads[t].history) :
                       threads[t].history[j]
                         = Message(threads[t].before[i].role, threads[t].before[i].content)

----------------------------------------------------------------------------
(* Termination of a call *)

\* a call is between its entry and its return
Running == pc \in {"loop", "gemini", "openai"}

\* every completion request is a blocking call that returns or raises (the
\* HTTP requests carry timeout=60), so a running call takes its next step
LiveSpec == Spec /\ WF_vars(GeminiGenerate \/ TryModel \/ OpenAIFallback)

----------------------------------------------------------------------------
(* Calls without credentials *)

\* C30: when the key of the active provider is empty, generate_response
\* returns the configuration error at once and no completion request is
\* issued to any provider, also when the OpenAI key of the last-resort
\* attempt is configured
C30_NoKeyNoRequest ==
    /\ [](self.api_key = "" => /\ attempts = <<>>
                               /\ payload = NoPayload
                               /\ pc \in {"idle", "done"})
    /\ [][(self.api_key = "" /\ pc = "idle")
            => /\ pc' = "done"
               /\ result' = Str(NoKeyMessage)]_vars

C30_Witness ==
    /\ self.provider = "openrouter"
    /\ self.api_key = ""
    /\ settings.OPENAI_API_KEY # ""
    /\ pc = "done"
    /\ result = Str(NoKeyMessage)
    /\ attempts = <<>>
====
